---- MODULE Spec2Model ----
(***************************************************************************)
(* Ratcheting update validation of the apiextensions-apiserver            *)
(* (pkg/apiserver/validation/ratcheting.go): the correlation tree          *)
(* (CorrelatedObject), its memoized equality (CachedDeepEqual), the        *)
(* navigation (Key, Index) and the ratcheting validator that demotes the   *)
(* errors of the schema validation engine to warnings at unchanged nodes.  *)
(***************************************************************************)
EXTENDS Integers, Sequences, FiniteSets, TLC

(***************************************************************************)
(* Decoded values (interface{} after JSON decoding): nil, a scalar, a      *)
(* []interface{} or a map[string]interface{}.                              *)
(***************************************************************************)
Null == [t |-> "null"]

S(n) == [t |-> "s", s |-> n]

L(q) == [t |-> "l", l |-> q]

M(f) == [t |-> "m", m |-> f]

EmptyMap == [k \in {} |-> Null]

IsNil(v) == v.t = "null"

IsList(v) == v.t = "l"

IsMap(v) == v.t = "m"

\* reflect.DeepEqual on decoded values: same dynamic type, then element-wise.
RECURSIVE DeepEqual(_, _)
DeepEqual(a, b) ==
    IF a.t # b.t THEN FALSE
    ELSE IF a.t = "null" THEN TRUE
    ELSE IF a.t = "s" THEN a.s = b.s
    ELSE IF a.t = "l"
         THEN /\ Len(a.l) = Len(b.l)
              /\ \A i \in 1..Len(a.l) : DeepEqual(a.l[i], b.l[i])
    ELSE /\ DOMAIN a.m = DOMAIN b.m
         /\ \A k \in DOMAIN a.m : DeepEqual(a.m[k], b.m[k])

(***************************************************************************)
(* spec.Schema, reduced to what ratcheting.go reads: Properties,           *)
(* AdditionalProperties.Schema, Items.Schema and the extensions            *)
(* x-kubernetes-list-type / x-kubernetes-list-map-keys.                    *)
(***************************************************************************)
NilSchema == [nil |-> TRUE]

IsNilSchema(s) == "nil" \in DOMAIN s

Schema(props, addl, items, lt, keys) ==
    [Properties |-> props, AdditionalProperties |-> addl, Items |-> items,
     listType |-> lt, mapKeys |-> keys]

NoProps == [k \in {} |-> NilSchema]

\* A schema of a scalar: no properties, no items.
Leaf == Schema(NoProps, NilSchema, NilSchema, "", {})

(***************************************************************************)
(* Keys of CorrelatedObject.children (map[interface{}]*CorrelatedObject):  *)
(* a string for a property, an int for a list index.  Both kinds are       *)
(* written as one record shape so that keys and paths stay comparable.     *)
(***************************************************************************)
FieldKey(field) == [f |-> field, i |-> 0]

IndexKey(index) == [f |-> "", i |-> index]

IsFieldKey(k) == k.f # ""

\* *bool: nil is <<>>, a pointer to b is <<b>>.
NilBool == <<>>

Ptr(b) == <<b>>

NilMapList == [nil |-> TRUE]

NoChildren == <<>>

\* NewCorrelatedObject
NewCorrelatedObject(new, old, schema) ==
    [OldValue |-> old, Value |-> new, Schema |-> schema,
     comparisonResult |-> NilBool, mapList |-> NilMapList,
     children |-> NoChildren]

\* l.children[k] = res
SetChild(l, k, res) ==
    [l EXCEPT !.children =
        [c \in (DOMAIN l.children) \cup {k} |->
            IF c = k THEN res ELSE l.children[c]]]

(***************************************************************************)
(* common.MapList of k8s.io/apiserver/pkg/cel: a lookup from the merge-key *)
(* values of the old elements to the old element (first element wins).     *)
(***************************************************************************)
MakeMapList(schema, oldAsList) ==
    [keys |-> IF schema.listType = "map" THEN schema.mapKeys ELSE {},
     items |-> oldAsList]

MapKeyOf(keys, e) == [k \in keys |-> IF k \in DOMAIN e.m THEN e.m[k] ELSE Null]

MapListMatches(ml, e) ==
    {j \in 1..Len(ml.items) :
        /\ IsMap(ml.items[j])
        /\ MapKeyOf(ml.keys, ml.items[j]) = MapKeyOf(ml.keys, e)}

MapListGet(ml, e) ==
    IF ml.keys = {} \/ ~IsMap(e) \/ MapListMatches(ml, e) = {} THEN Null
    ELSE LET j == CHOOSE j \in MapListMatches(ml, e) :
                      \A j2 \in MapListMatches(ml, e) : j <= j2
         IN  ml.items[j]

\* correlateOldValueForChildAtNewIndex that correlates every list by index.
correlateByIndexOnly(r, index) ==
    IF ~IsList(r.OldValue) THEN [r |-> r, old |-> Null, panic |-> FALSE]
    ELSE IF ~IsList(r.Value) THEN [r |-> r, old |-> Null, panic |-> FALSE]
    ELSE IF Len(r.Value.l) <= index THEN [r |-> r, old |-> Null, panic |-> FALSE]
    ELSE IF Len(r.OldValue.l) <= index THEN [r |-> r, old |-> Null, panic |-> FALSE]
    ELSE IF index < 0 THEN [r |-> r, old |-> Null, panic |-> TRUE]
    ELSE [r |-> r, old |-> r.OldValue.l[index + 1], panic |-> FALSE]

(***************************************************************************)
(* correlateOldValueForChildAtNewIndex: the old value for the element at   *)
(* the new index, nil when there is none.  Returns the node too, because   *)
(* the map representation of a map-type list is cached in r.mapList.       *)
(* An index below zero is an out-of-range slice access: panic.             *)
(***************************************************************************)
correlateOldValueForChildAtNewIndex(r, index) ==
    IF ~IsList(r.OldValue) THEN [r |-> r, old |-> Null, panic |-> FALSE]
    ELSE IF ~IsList(r.Value) THEN [r |-> r, old |-> Null, panic |-> FALSE]
    ELSE IF Len(r.Value.l) <= index THEN [r |-> r, old |-> Null, panic |-> FALSE]
    ELSE IF r.Schema.listType = "map"
         THEN IF index < 0 THEN [r |-> r, old |-> Null, panic |-> TRUE]
              ELSE LET currentElement == r.Value.l[index + 1]
                       oldList == IF "nil" \in DOMAIN r.mapList
                                  THEN MakeMapList(r.Schema, r.OldValue.l)
                                  ELSE r.mapList
                   IN  [r |-> [r EXCEPT !.mapList = oldList],
                        old |-> MapListGet(oldList, currentElement),
                        panic |-> FALSE]
    ELSE IF r.Schema.listType = "set" THEN [r |-> r, old |-> Null, panic |-> FALSE]
    ELSE IF r.Schema.listType = "atomic" THEN [r |-> r, old |-> Null, panic |-> FALSE]
    ELSE IF Len(r.OldValue.l) <= index THEN [r |-> r, old |-> Null, panic |-> FALSE]
    ELSE IF index < 0 THEN [r |-> r, old |-> Null, panic |-> TRUE]
    ELSE [r |-> r, old |-> r.OldValue.l[index + 1], panic |-> FALSE]

\* Key that asks only the new map for the field.
KeyFromNewOnly(l, field) ==
    IF IsNilSchema(l.Schema) THEN [l |-> l, found |-> FALSE]
    ELSE IF FieldKey(field) \in DOMAIN l.children THEN [l |-> l, found |-> TRUE]
    ELSE IF ~IsMap(l.OldValue) \/ ~IsMap(l.Value) THEN [l |-> l, found |-> FALSE]
    ELSE IF field \notin DOMAIN l.Value.m THEN [l |-> l, found |-> FALSE]
    ELSE LET oldValueForField == IF field \in DOMAIN l.OldValue.m
                                 THEN l.OldValue.m[field] ELSE Null
         IN  IF field \in DOMAIN l.Schema.Properties
             THEN [l |-> SetChild(l, FieldKey(field),
                            NewCorrelatedObject(l.Value.m[field], oldValueForField,
                                                l.Schema.Properties[field])),
                   found |-> TRUE]
             ELSE IF ~IsNilSchema(l.Schema.AdditionalProperties)
                  THEN [l |-> SetChild(l, FieldKey(field),
                                 NewCorrelatedObject(l.Value.m[field], oldValueForField,
                                                     l.Schema.AdditionalProperties)),
                        found |-> TRUE]
             ELSE [l |-> l, found |-> FALSE]

\* Key that builds a new child although one is stored for the field.
KeyWithoutStoredChild(l, field) ==
    IF IsNilSchema(l.Schema) THEN [l |-> l, found |-> FALSE]
    ELSE IF ~IsMap(l.OldValue) \/ ~IsMap(l.Value) THEN [l |-> l, found |-> FALSE]
    ELSE IF field \notin DOMAIN l.OldValue.m \/ field \notin DOMAIN l.Value.m
         THEN [l |-> l, found |-> FALSE]
    ELSE IF field \in DOMAIN l.Schema.Properties
         THEN [l |-> SetChild(l, FieldKey(field),
                        NewCorrelatedObject(l.Value.m[field], l.OldValue.m[field],
                                            l.Schema.Properties[field])),
               found |-> TRUE]
    ELSE IF ~IsNilSchema(l.Schema.AdditionalProperties)
         THEN [l |-> SetChild(l, FieldKey(field),
                        NewCorrelatedObject(l.Value.m[field], l.OldValue.m[field],
                                            l.Schema.AdditionalProperties)),
               found |-> TRUE]
    ELSE [l |-> l, found |-> FALSE]

(***************************************************************************)
(* Key: the child of the receiver for a property; found is FALSE for a nil *)
(* return.  l is the receiver after the call.                              *)
(***************************************************************************)
Key(l, field) ==
    IF IsNilSchema(l.Schema) THEN [l |-> l, found |-> FALSE]
    ELSE IF FieldKey(field) \in DOMAIN l.children THEN [l |-> l, found |-> TRUE]
    ELSE IF ~IsMap(l.OldValue) \/ ~IsMap(l.Value) THEN [l |-> l, found |-> FALSE]
    ELSE IF field \notin DOMAIN l.OldValue.m \/ field \notin DOMAIN l.Value.m
         THEN [l |-> l, found |-> FALSE]
    ELSE IF field \in DOMAIN l.Schema.Properties
         THEN [l |-> SetChild(l, FieldKey(field),
                        NewCorrelatedObject(l.Value.m[field], l.OldValue.m[field],
                                            l.Schema.Properties[field])),
               found |-> TRUE]
    ELSE IF ~IsNilSchema(l.Schema.AdditionalProperties)
         THEN [l |-> SetChild(l, FieldKey(field),
                        NewCorrelatedObject(l.Value.m[field], l.OldValue.m[field],
                                            l.Schema.AdditionalProperties)),
               found |-> TRUE]
    ELSE [l |-> l, found |-> FALSE]

(***************************************************************************)
(* Index: the child of the receiver for a list index.                      *)
(***************************************************************************)
Index(l, i) ==
    IF IsNilSchema(l.Schema) THEN [l |-> l, found |-> FALSE, panic |-> FALSE]
    ELSE IF IndexKey(i) \in DOMAIN l.children
         THEN [l |-> l, found |-> TRUE, panic |-> FALSE]
    ELSE IF ~IsList(l.Value) \/ Len(l.Value.l) <= i
         THEN [l |-> l, found |-> FALSE, panic |-> FALSE]
    ELSE LET c == correlateOldValueForChildAtNewIndex(l, i)
         IN  IF c.panic THEN [l |-> l, found |-> FALSE, panic |-> TRUE]
             ELSE IF IsNil(c.old) THEN [l |-> c.r, found |-> FALSE, panic |-> FALSE]
             ELSE IF IsNilSchema(l.Schema.Items)
                  THEN [l |-> c.r, found |-> FALSE, panic |-> FALSE]
             ELSE [l |-> SetChild(c.r, IndexKey(i),
                            NewCorrelatedObject(l.Value.l[i + 1], c.old, l.Schema.Items)),
                   found |-> TRUE, panic |-> FALSE]

(***************************************************************************)
(* CachedDeepEqual.  The call writes comparisonResult of the receiver and  *)
(* of every child it asks, so it yields the receiver after the call; the   *)
(* value returned is its comparisonResult.  A Go map is ranged over in an  *)
(* unspecified order and the loop stops at the first unequal child, so a   *)
(* call on a map node has a set of outcomes.                               *)
(***************************************************************************)
Cached(r, res) == [r EXCEPT !.comparisonResult = Ptr(res)]

Result(r) == r.comparisonResult[1]

RECURSIVE CachedDeepEqual(_), Compare(_), ListLoop(_, _), MapLoop(_, _)

\* for i := range newAsArray { child, ok := r.children[i] ... }
ListLoop(r, i) ==
    IF i >= Len(r.Value.l) THEN {Cached(r, TRUE)}
    ELSE IF IndexKey(i) \notin DOMAIN r.children THEN {Cached(r, FALSE)}
    ELSE UNION {
            IF Result(child) THEN ListLoop(SetChild(r, IndexKey(i), child), i + 1)
            ELSE {Cached(SetChild(r, IndexKey(i), child), FALSE)}
         : child \in CachedDeepEqual(r.children[IndexKey(i)]) }

\* for k := range oldAsMap { child, ok := r.children[k] ... }
MapLoop(r, todo) ==
    IF todo = {} THEN {Cached(r, TRUE)}
    ELSE UNION {
            IF FieldKey(k) \notin DOMAIN r.children THEN {Cached(r, FALSE)}
            ELSE UNION {
                    IF Result(child)
                    THEN MapLoop(SetChild(r, FieldKey(k), child), todo \ {k})
                    ELSE {Cached(SetChild(r, FieldKey(k), child), FALSE)}
                 : child \in CachedDeepEqual(r.children[FieldKey(k)]) }
         : k \in todo }

\* Compare without the comparison of the key counts of the two maps.
CompareIgnoringKeyCount(r) ==
    IF IsNil(r.Value) /\ IsNil(r.OldValue) THEN {Cached(r, TRUE)}
    ELSE IF IsNil(r.Value) \/ IsNil(r.OldValue) THEN {Cached(r, FALSE)}
    ELSE IF IsList(r.OldValue) # IsList(r.Value) THEN {Cached(r, FALSE)}
    ELSE IF IsList(r.OldValue)
         THEN IF Len(r.OldValue.l) # Len(r.Value.l) THEN {Cached(r, FALSE)}
              ELSE IF Cardinality(DOMAIN r.children) # Len(r.OldValue.l)
                   THEN {Cached(r, FALSE)}
              ELSE ListLoop(r, 0)
    ELSE IF IsMap(r.OldValue) # IsMap(r.Value) THEN {Cached(r, FALSE)}
    ELSE IF IsMap(r.OldValue)
         THEN IF DOMAIN r.OldValue.m = {} /\ DOMAIN r.Value.m = {}
              THEN {Cached(r, TRUE)}
              ELSE IF Cardinality(DOMAIN r.children) # Cardinality(DOMAIN r.OldValue.m)
                   THEN {Cached(r, FALSE)}
              ELSE MapLoop(r, DOMAIN r.OldValue.m)
    ELSE {Cached(r, DeepEqual(r.OldValue, r.Value))}

\* Compare that defers to reflect.DeepEqual when a child is missing.
CompareDeferringToDeepEqual(r) ==
    IF IsNil(r.Value) /\ IsNil(r.OldValue) THEN {Cached(r, TRUE)}
    ELSE IF IsNil(r.Value) \/ IsNil(r.OldValue) THEN {Cached(r, FALSE)}
    ELSE IF IsList(r.OldValue) # IsList(r.Value) THEN {Cached(r, FALSE)}
    ELSE IF IsList(r.OldValue)
         THEN IF Len(r.OldValue.l) # Len(r.Value.l) THEN {Cached(r, FALSE)}
              ELSE IF Cardinality(DOMAIN r.children) # Len(r.OldValue.l)
                   THEN {Cached(r, DeepEqual(r.OldValue, r.Value))}
              ELSE ListLoop(r, 0)
    ELSE IF IsMap(r.OldValue) # IsMap(r.Value) THEN {Cached(r, FALSE)}
    ELSE IF IsMap(r.OldValue)
         THEN IF Cardinality(DOMAIN r.OldValue.m) # Cardinality(DOMAIN r.Value.m)
              THEN {Cached(r, FALSE)}
              ELSE IF DOMAIN r.OldValue.m = {} /\ DOMAIN r.Value.m = {}
                   THEN {Cached(r, TRUE)}
              ELSE IF Cardinality(DOMAIN r.children) # Cardinality(DOMAIN r.OldValue.m)
                   THEN {Cached(r, DeepEqual(r.OldValue, r.Value))}
              ELSE MapLoop(r, DOMAIN r.OldValue.m)
    ELSE {Cached(r, DeepEqual(r.OldValue, r.Value))}

\* The comparison CachedDeepEqual makes when no result is cached.
Compare(r) ==
    IF IsNil(r.Value) /\ IsNil(r.OldValue) THEN {Cached(r, TRUE)}
    ELSE IF IsNil(r.Value) \/ IsNil(r.OldValue) THEN {Cached(r, FALSE)}
    ELSE IF IsList(r.OldValue) # IsList(r.Value) THEN {Cached(r, FALSE)}
    ELSE IF IsList(r.OldValue)
         THEN IF Len(r.OldValue.l) # Len(r.Value.l) THEN {Cached(r, FALSE)}
              ELSE IF Cardinality(DOMAIN r.children) # Len(r.OldValue.l)
                   THEN {Cached(r, FALSE)}
              ELSE ListLoop(r, 0)
    ELSE IF IsMap(r.OldValue) # IsMap(r.Value) THEN {Cached(r, FALSE)}
    ELSE IF IsMap(r.OldValue)
         THEN IF Cardinality(DOMAIN r.OldValue.m) # Cardinality(DOMAIN r.Value.m)
              THEN {Cached(r, FALSE)}
              ELSE IF DOMAIN r.OldValue.m = {} /\ DOMAIN r.Value.m = {}
                   THEN {Cached(r, TRUE)}
              ELSE IF Cardinality(DOMAIN r.children) # Cardinality(DOMAIN r.OldValue.m)
                   THEN {Cached(r, FALSE)}
              ELSE MapLoop(r, DOMAIN r.OldValue.m)
    ELSE {Cached(r, DeepEqual(r.OldValue, r.Value))}

\* CachedDeepEqual that compares again although a result is cached.
CachedDeepEqualRecomputed(r) == Compare(r)

CachedDeepEqual(r) ==
    IF r.comparisonResult # NilBool THEN {r} ELSE Compare(r)

(***************************************************************************)
(* validate.Result of kube-openapi: an ordered list of errors and an       *)
(* ordered list of warnings.                                               *)
(***************************************************************************)
EmptyResult == [Errors |-> <<>>, Warnings |-> <<>>]

IsValid(res) == Len(res.Errors) = 0

Merge(res, other) ==
    [Errors |-> res.Errors \o other.Errors,
     Warnings |-> res.Warnings \o other.Warnings]

MergeAsWarnings(res, other) ==
    [Errors |-> res.Errors,
     Warnings |-> res.Warnings \o other.Errors \o other.Warnings]

\* Validate that demotes the errors without comparing old and new.
ValidateWithoutComparison(correlation, res) ==
    IF IsValid(res)
    THEN {[correlation |-> correlation, ret |-> res, eq |-> "none"]}
    ELSE {[correlation |-> c,
           ret |-> MergeAsWarnings(EmptyResult, res),
           eq |-> IF Result(c) THEN "true" ELSE "false"]
          : c \in CachedDeepEqual(correlation)}

\* Validate that returns a fresh result without merging the engine's into it.
ValidateDroppingResult(correlation, res) ==
    IF IsValid(res)
    THEN {[correlation |-> correlation, ret |-> res, eq |-> "none"]}
    ELSE {[correlation |-> c,
           ret |-> IF Result(c) THEN EmptyResult ELSE res,
           eq |-> IF Result(c) THEN "true" ELSE "false"]
          : c \in CachedDeepEqual(correlation)}

\* Validate that compares old and new before it looks at the result.
ValidateComparingFirst(correlation, res) ==
    {[correlation |-> c,
      ret |-> IF IsValid(res) THEN res
              ELSE IF Result(c) THEN MergeAsWarnings(EmptyResult, res) ELSE res,
      eq |-> IF IsValid(res) THEN "none"
             ELSE IF Result(c) THEN "true" ELSE "false"]
     : c \in CachedDeepEqual(correlation)}

(***************************************************************************)
(* ratchetingValueValidator.Validate, after s.Validate(r.correlation.Value)*)
(* has returned res: the receiver's correlation node after the call and    *)
(* the result returned.  eq records whether CachedDeepEqual was called     *)
(* and what it returned ("none", "true", "false").                         *)
(***************************************************************************)
Validate(correlation, res) ==
    IF IsValid(res)
    THEN {[correlation |-> correlation, ret |-> res, eq |-> "none"]}
    ELSE {[correlation |-> c,
           ret |-> IF Result(c) THEN MergeAsWarnings(EmptyResult, res) ELSE res,
           eq |-> IF Result(c) THEN "true" ELSE "false"]
          : c \in CachedDeepEqual(correlation)}

(***************************************************************************)
(* Paths into the correlation tree.                                        *)
(***************************************************************************)
RECURSIVE NodeAt(_, _), ReplaceAt(_, _, _), Paths(_)

NodeAt(n, path) ==
    IF path = <<>> THEN n ELSE NodeAt(n.children[Head(path)], Tail(path))

ReplaceAt(n, path, m) ==
    IF path = <<>> THEN m
    ELSE SetChild(n, Head(path), ReplaceAt(n.children[Head(path)], Tail(path), m))

Paths(n) ==
    {<<>>} \cup UNION {{<<k>> \o p : p \in Paths(n.children[k])} : k \in DOMAIN n.children}

(***************************************************************************)
(* Bounds, schemas and values of the checked instances.                    *)
(***************************************************************************)
MaxLen == 2

MaxReports == 2

MaxCalls == 2

Lists(elems, n) == {L(q) : q \in UNION {[1..k -> elems] : k \in 0..n}}

ObjSchema == Schema([x |-> Leaf, y |-> Schema(NoProps, NilSchema, Leaf, "atomic", {})],
                    NilSchema, NilSchema, "", {})

AtomicListSchema == Schema(NoProps, NilSchema, Leaf, "atomic", {})

\* x is declared; every other field falls under additionalProperties.
AddlSchema == Schema([x |-> Leaf], AtomicListSchema, NilSchema, "", {})

PosListSchema == Schema(NoProps, NilSchema, Leaf, "", {})

SetListSchema == Schema(NoProps, NilSchema, Leaf, "set", {})

NoItemsSchema == Schema(NoProps, NilSchema, NilSchema, "", {})

ElemSchema == Schema([name |-> Leaf, v |-> Leaf], NilSchema, NilSchema, "", {})

ElemOpenSchema == Schema([name |-> Leaf], NilSchema, NilSchema, "", {})

MapListSchema == Schema(NoProps, NilSchema, ElemSchema, "map", {"name"})

MapListOpenSchema == Schema(NoProps, NilSchema, ElemOpenSchema, "map", {"name"})

SchemaNames ==
    {"leaf", "obj", "addl", "list", "set", "atomic", "noitems", "maplist",
     "maplistopen", "nil"}

SchemaOf(name) ==
    CASE name = "leaf" -> Leaf
      [] name = "obj" -> ObjSchema
      [] name = "addl" -> AddlSchema
      [] name = "list" -> PosListSchema
      [] name = "set" -> SetListSchema
      [] name = "atomic" -> AtomicListSchema
      [] name = "noitems" -> NoItemsSchema
      [] name = "maplist" -> MapListSchema
      [] name = "maplistopen" -> MapListOpenSchema
      [] name = "nil" -> NilSchema

OffShape == {Null, S(1)}

a1 == M([name |-> S(1), v |-> S(1)])

a2 == M([name |-> S(1), v |-> S(2)])

b2 == M([name |-> S(2), v |-> S(2)])

\* Map-type lists: reordered, partly changed, shorter, with a repeated merge key.
MapLists ==
    {L(<<a1>>), L(<<a1, b2>>), L(<<b2, a1>>), L(<<b2, a2>>), L(<<a1, a1>>)}

\* Objects: x and y are declared properties of ObjSchema, z is not.
Objects ==
    {M(EmptyMap), M([x |-> S(1)]), M([x |-> S(1), y |-> L(<<S(1)>>)]),
     M([x |-> S(2), y |-> L(<<S(1)>>)]), M([x |-> S(1), y |-> L(<<>>)]),
     M([x |-> S(1), z |-> S(1)]), M([x |-> S(2), z |-> S(1)])}

\* Objects under an additionalProperties schema: any key, null values.
OpenObjects ==
    {M(EmptyMap), M([x |-> S(1)]), M([x |-> Null]), M([x |-> S(1), y |-> S(1)]),
     M([x |-> S(1), z |-> S(1)]), M([x |-> S(2), y |-> S(1)])}

\* Lists of equal scalars up to the length bound.
Ones == Lists({S(1)}, MaxLen)

ValuesOf(name) ==
    CASE name = "leaf" -> {Null, S(1), S(2)}
      [] name = "obj" -> Objects \cup {Null}
      [] name = "addl" -> OpenObjects \cup {S(1)}
      [] name = "list" -> Ones \cup {L(<<Null>>), L(<<S(2)>>), L(<<S(1), Null>>),
                                     L(<<S(1), S(2)>>)} \cup OffShape
      [] name = "set" -> Ones \cup {L(<<S(2)>>), L(<<S(2), S(1)>>)} \cup {Null}
      [] name = "atomic" -> Ones \cup {L(<<S(2)>>), L(<<S(2), S(1)>>)} \cup {Null}
      [] name = "noitems" -> Ones \cup {Null}
      [] name = "maplist" -> MapLists \cup {Null}
      [] name = "maplistopen" -> MapLists
      [] name = "nil" -> {S(1), L(<<S(1)>>), M([x |-> S(1)])}

FieldNames == {"x", "y", "z", "name", "v"}

Indices == (0 - 1)..MaxLen

(***************************************************************************)
(* State.                                                                  *)
(*  validator: the RatchetingSchemaValidator (its schemaArgs.schema).      *)
(*  phase:     "idle", "validating" (inside ValidateUpdate), "done" (it    *)
(*             has returned), "client" (a caller navigating a              *)
(*             CorrelatedObject directly), "panic" (a call panicked).      *)
(*  root:      the correlation tree of the call in progress.               *)
(*  stack:     the ratchetingValueValidator.Validate calls in progress,    *)
(*             innermost last: the path of the correlation node, the       *)
(*             children the engine still has to visit, the result the      *)
(*             engine has merged so far.                                   *)
(*  reports:   the number of entries the engine has reported in this call. *)
(*  last:      the operation that returned last.                           *)
(*  result:    the result of the last ValidateUpdate or Validate.          *)
(*  calls:     the number of ValidateUpdate and Validate calls made on the *)
(*             validator so far.                                           *)
(***************************************************************************)
VARIABLES validator, phase, root, stack, reports, last, result, calls

vars == <<validator, phase, root, stack, reports, last, result, calls>>

NoObject == [nil |-> TRUE]

NoCall == [op |-> "none"]

Init ==
    /\ validator \in {[name |-> n, schema |-> SchemaOf(n)] : n \in SchemaNames}
    /\ phase = "idle"
    /\ root = NoObject
    /\ stack = <<>>
    /\ reports = 0
    /\ last = NoCall
    /\ result = EmptyResult
    /\ calls = 0

(***************************************************************************)
(* The schema validation engine (kube-openapi SchemaValidator), by its     *)
(* contract: it validates the value of a node, reports entries of its own, *)
(* and asks the NewValidatorForField / NewValidatorForIndex hook for the   *)
(* validator of every property and index of the value that has a schema    *)
(* ("written to always visit all children of a slice"), in any order.      *)
(***************************************************************************)
EngineChildren(n) ==
    IF IsNilSchema(n.Schema) THEN {}
    ELSE IF IsMap(n.Value)
         THEN {FieldKey(f) : f \in {g \in DOMAIN n.Value.m :
                    \/ g \in DOMAIN n.Schema.Properties
                    \/ ~IsNilSchema(n.Schema.AdditionalProperties)}}
    ELSE IF IsList(n.Value) /\ ~IsNilSchema(n.Schema.Items)
         THEN {IndexKey(i) : i \in 0..(Len(n.Value.l) - 1)}
    ELSE {}

Entry(path, sev) == [at |-> path, sev |-> sev]

\* What the engine itself reports at a node: nothing, an error or a warning.
\* A validator for a nil schema is nil and reports nothing.
OwnChoices ==
    IF reports < MaxReports /\ ~IsNilSchema(validator.schema)
    THEN {"none", "error", "warning"}
    ELSE {"none"}

OwnResult(path, own) ==
    IF own = "error" THEN [Errors |-> <<Entry(path, "error")>>, Warnings |-> <<>>]
    ELSE IF own = "warning" THEN [Errors |-> <<>>, Warnings |-> <<Entry(path, "warning")>>]
    ELSE EmptyResult

Frame(path, n) == [path |-> path, todo |-> EngineChildren(n), res |-> EmptyResult]

Top == stack[Len(stack)]

SetTop(f) == [stack EXCEPT ![Len(stack)] = f]

\* ValidateUpdate that keeps the correlation tree of the call before and
\* only replaces the values at its root.
ValidateUpdateReusingTree(new, old) ==
    /\ phase \in {"idle", "done"}
    /\ calls < MaxCalls
    /\ root' = IF phase = "done" /\ last.op = "Validate"
               THEN [last.correlation EXCEPT !.Value = new, !.OldValue = old]
               ELSE NewCorrelatedObject(new, old, validator.schema)
    /\ stack' = <<Frame(<<>>, root')>>
    /\ phase' = "validating"
    /\ reports' = 0
    /\ last' = [op |-> "ValidateUpdate"]
    /\ result' = EmptyResult
    /\ calls' = calls + 1
    /\ UNCHANGED validator

\* RatchetingSchemaValidator.ValidateUpdate: a fresh tree, the root validator.
\* The validator holds only its schemaArgs, so a call may follow a call.
ValidateUpdate(new, old) ==
    /\ phase \in {"idle", "done"}
    /\ calls < MaxCalls
    /\ root' = NewCorrelatedObject(new, old, validator.schema)
    /\ stack' = <<Frame(<<>>, root')>>
    /\ phase' = "validating"
    /\ reports' = 0
    /\ last' = [op |-> "ValidateUpdate"]
    /\ result' = EmptyResult
    /\ calls' = calls + 1
    /\ UNCHANGED validator

\* What the engine can return for a value validated on its own.
PlainResults ==
    IF IsNilSchema(validator.schema) THEN {EmptyResult}
    ELSE {Merge(OwnResult(<<>>, e), OwnResult(<<>>, w)) :
            e \in {"none", "error"}, w \in {"none", "warning"}}

\* Validate that treats the value as an unchanged update of itself.
ValidateAsUnchangedUpdate(new) ==
    /\ phase \in {"idle", "done"}
    /\ calls < MaxCalls
    /\ \E res \in PlainResults :
          /\ last' = [op |-> "Create", value |-> new, res |-> res,
                      ret |-> MergeAsWarnings(EmptyResult, res)]
          /\ result' = MergeAsWarnings(EmptyResult, res)
    /\ phase' = "done"
    /\ root' = NoObject
    /\ stack' = <<>>
    /\ reports' = 0
    /\ calls' = calls + 1
    /\ UNCHANGED validator

\* RatchetingSchemaValidator.Validate: the engine's validator for the schema,
\* without the ratcheting options, run on the value.
RatchetingSchemaValidator_Validate(new) ==
    /\ phase \in {"idle", "done"}
    /\ calls < MaxCalls
    /\ \E res \in PlainResults :
          /\ last' = [op |-> "Create", value |-> new, res |-> res, ret |-> res]
          /\ result' = res
    /\ phase' = "done"
    /\ root' = NoObject
    /\ stack' = <<>>
    /\ reports' = 0
    /\ calls' = calls + 1
    /\ UNCHANGED validator

\* The validator a hook returned is run on the child: a ratcheting validator
\* opens a frame, the engine's default validator returns its own result.
RunChild(k, found, l, own) ==
    LET f == Top
        rest == [f EXCEPT !.todo = f.todo \ {k}]
    IN  /\ root' = ReplaceAt(root, f.path, l)
        /\ IF found
           THEN /\ own = "none"
                /\ stack' = Append(SetTop(rest),
                                   Frame(f.path \o <<k>>, l.children[k]))
                /\ UNCHANGED reports
           ELSE /\ stack' = SetTop([rest EXCEPT !.res =
                                Merge(f.res, OwnResult(f.path \o <<k>>, own))])
                /\ reports' = reports + (IF own = "none" THEN 0 ELSE 1)
        /\ UNCHANGED <<validator, phase, result, calls>>

\* ratchetingValueValidator.SubPropertyValidator
SubPropertyValidator(field) ==
    /\ phase = "validating"
    /\ FieldKey(field) \in Top.todo
    /\ LET childNode == Key(NodeAt(root, Top.path), field)
       IN  /\ \E own \in OwnChoices :
                 RunChild(FieldKey(field), childNode.found, childNode.l, own)
           /\ last' = [op |-> "SubPropertyValidator", path |-> Top.path,
                       key |-> FieldKey(field), ratcheting |-> childNode.found]

\* ratchetingValueValidator.SubIndexValidator
SubIndexValidator(index) ==
    /\ phase = "validating"
    /\ IndexKey(index) \in Top.todo
    /\ LET childNode == Index(NodeAt(root, Top.path), index)
       IN  /\ \E own \in OwnChoices :
                 RunChild(IndexKey(index), childNode.found, childNode.l, own)
           /\ last' = [op |-> "SubIndexValidator", path |-> Top.path,
                       key |-> IndexKey(index), ratcheting |-> childNode.found]

\* The engine returns to ratchetingValueValidator.Validate, which applies the
\* ratcheting rule and returns to its caller.
ValidateReturn ==
    /\ phase = "validating"
    /\ LET f == Top
           n == NodeAt(root, f.path)
       IN  \E own \in OwnChoices :
             /\ f.todo = {}
             /\ \E v \in Validate(n, Merge(f.res, OwnResult(f.path, own))) :
                  /\ last' = [op |-> "Validate", path |-> f.path,
                              correlation |-> v.correlation,
                              res |-> Merge(f.res, OwnResult(f.path, own)),
                              ret |-> v.ret, eq |-> v.eq]
                  /\ reports' = reports + (IF own = "none" THEN 0 ELSE 1)
                  /\ IF Len(stack) = 1
                     THEN /\ stack' = <<>>
                          /\ root' = NoObject
                          /\ phase' = "done"
                          /\ result' = v.ret
                     ELSE LET caller == stack[Len(stack) - 1]
                          IN  /\ stack' = [SubSeq(stack, 1, Len(stack) - 1)
                                             EXCEPT ![Len(stack) - 1] =
                                               [caller EXCEPT !.res = Merge(caller.res, v.ret)]]
                              /\ root' = ReplaceAt(root, f.path, v.correlation)
                              /\ UNCHANGED <<phase, result>>
    /\ UNCHANGED <<validator, calls>>

(***************************************************************************)
(* A caller that holds a CorrelatedObject and navigates it directly, in    *)
(* any order: Key, Index and CachedDeepEqual are exported methods.         *)
(***************************************************************************)
NewClient(new, old) ==
    /\ phase = "idle"
    /\ root' = NewCorrelatedObject(new, old, validator.schema)
    /\ phase' = "client"
    /\ last' = [op |-> "client"]
    /\ result' = EmptyResult
    /\ reports' = 0
    /\ UNCHANGED <<validator, stack, calls>>

CallKey(path, field) ==
    /\ phase = "client"
    /\ LET k == Key(NodeAt(root, path), field)
       IN  /\ root' = ReplaceAt(root, path, k.l)
           /\ last' = [op |-> "client"]
    /\ UNCHANGED <<validator, phase, stack, reports, result, calls>>

CallIndex(path, i) ==
    /\ phase = "client"
    /\ LET k == Index(NodeAt(root, path), i)
       IN  /\ root' = ReplaceAt(root, path, k.l)
           /\ last' = [op |-> "client"]
           /\ phase' = IF k.panic THEN "panic" ELSE phase
    /\ UNCHANGED <<validator, stack, reports, result, calls>>

CallCachedDeepEqual(path) ==
    /\ phase = "client"
    /\ \E r \in CachedDeepEqual(NodeAt(root, path)) :
          /\ root' = ReplaceAt(root, path, r)
          /\ last' = [op |-> "client"]
    /\ UNCHANGED <<validator, phase, stack, reports, result, calls>>

\* The nodes a client can hold: every node of the tree built so far.
ClientPaths == IF phase = "client" THEN Paths(root) ELSE {}

Next ==
    \/ \E new, old \in ValuesOf(validator.name) : ValidateUpdate(new, old)
    \/ \E new \in ValuesOf(validator.name) : RatchetingSchemaValidator_Validate(new)
    \/ \E field \in FieldNames : SubPropertyValidator(field)
    \/ \E index \in Indices : SubIndexValidator(index)
    \/ ValidateReturn

Spec == Init /\ [][Next]_vars

NextClient ==
    \/ \E new, old \in ValuesOf(validator.name) : NewClient(new, old)
    \/ \E path \in ClientPaths, field \in FieldNames : CallKey(path, field)
    \/ \E path \in ClientPaths, i \in Indices : CallIndex(path, i)
    \/ \E path \in ClientPaths : CallCachedDeepEqual(path)

SpecClient == Init /\ [][NextClient]_vars

(***************************************************************************)
(* Properties of ValidateUpdate (specification Spec).  last describes the  *)
(* ratchetingValueValidator.Validate call that returned last: its          *)
(* correlation node, the engine's result res and the result returned ret.  *)
(***************************************************************************)
Returned == last.op = "Validate"

Entries(res) ==
    {res.Errors[i] : i \in 1..Len(res.Errors)} \cup
    {res.Warnings[i] : i \in 1..Len(res.Warnings)}

\* C1: at a node whose old and new value are structurally equal, a result of
\* the engine that has errors is returned with no error and at least one
\* warning, whatever the shape of the value.
C1_UnchangedForgiven ==
    (/\ Returned
     /\ DeepEqual(last.correlation.OldValue, last.correlation.Value)
     /\ ~IsValid(last.res))
    => /\ IsValid(last.ret)
       /\ Len(last.ret.Warnings) >= 1

RECURSIVE SameContent(_, _, _)
SameContent(schema, old, new) ==
    IF IsNilSchema(schema) THEN DeepEqual(old, new)
    ELSE IF IsList(old) /\ IsList(new)
         THEN /\ Len(old.l) = Len(new.l)
              /\ \A i \in 1..Len(new.l) :
                    IF schema.listType = "map"
                    THEN LET o == MapListGet(MakeMapList(schema, old.l), new.l[i])
                         IN  ~IsNil(o) /\ SameContent(schema.Items, o, new.l[i])
                    ELSE SameContent(schema.Items, old.l[i], new.l[i])
    ELSE IF IsMap(old) /\ IsMap(new)
         THEN /\ DOMAIN old.m = DOMAIN new.m
              /\ \A k \in DOMAIN new.m :
                    SameContent(IF k \in DOMAIN schema.Properties
                                THEN schema.Properties[k]
                                ELSE schema.AdditionalProperties,
                                old.m[k], new.m[k])
    ELSE DeepEqual(old, new)

C3_NothingFabricatedOrSuppressed ==
    Returned =>
        /\ Entries(last.ret) = Entries(last.res)
        /\ Len(last.ret.Errors) + Len(last.ret.Warnings)
             = Len(last.res.Errors) + Len(last.res.Warnings)
        /\ \A i \in 1..Len(last.ret.Errors) :
              \E j \in 1..Len(last.res.Errors) : last.ret.Errors[i] = last.res.Errors[j]
        /\ \A j \in 1..Len(last.res.Warnings) :
              \E i \in 1..Len(last.ret.Warnings) : last.ret.Warnings[i] = last.res.Warnings[j]
        /\ IsValid(last.res) => last.ret = last.res

\* An engine result with an error and a warning was demoted as a whole.
C3_Witness ==
    /\ Returned
    /\ Len(last.res.Errors) >= 1
    /\ Len(last.res.Warnings) >= 1
    /\ last.eq = "true"
    /\ Len(last.ret.Warnings) = 2

\* The node of the validator that called the one that returned last.
Front(path) == SubSeq(path, 1, Len(path) - 1)

LastKey == last.path[Len(last.path)]

Caller == NodeAt(root, Front(last.path))

\* C4: under a changed map, a declared field whose old and new value are
\* equal has the errors the engine reports at it demoted by its own
\* validator; the errors at a changed field and at the map stay errors.
C4_PerNodeRatcheting ==
    /\ (/\ Returned
         /\ Len(last.path) >= 1
         /\ IsFieldKey(LastKey)
         /\ LastKey.f \in DOMAIN Caller.Schema.Properties
         /\ ~DeepEqual(Caller.OldValue, Caller.Value)
         /\ ~IsValid(last.res))
        => IF DeepEqual(last.correlation.OldValue, last.correlation.Value)
           THEN IsValid(last.ret) /\ Len(last.ret.Warnings) >= 1
           ELSE last.ret = last.res
    /\ (/\ Returned
         /\ IsMap(last.correlation.OldValue)
         /\ IsMap(last.correlation.Value)
         /\ ~DeepEqual(last.correlation.OldValue, last.correlation.Value)
         /\ ~IsValid(last.res))
        => last.ret = last.res

\* Map-type lists: the merge-key values of an element, lists without a
\* repeated key, lists that are permutations of each other.
IsMapList(n) ==
    /\ ~IsNilSchema(n.Schema)
    /\ n.Schema.listType = "map"
    /\ n.Schema.mapKeys # {}
    /\ IsList(n.OldValue)
    /\ IsList(n.Value)

DistinctKeys(keys, q) ==
    \A i, j \in 1..Len(q) : i # j => MapKeyOf(keys, q[i]) # MapKeyOf(keys, q[j])

IsPermutation(old, new) ==
    /\ Len(old) = Len(new)
    /\ \E pi \in [1..Len(new) -> 1..Len(new)] :
          /\ \A i, j \in 1..Len(new) : i # j => pi[i] # pi[j]
          /\ \A i \in 1..Len(new) : DeepEqual(old[pi[i]], new[i])

\* C5: a map-type list whose old elements have distinct merge keys and whose
\* new list is a permutation of the old one is equal for CachedDeepEqual
\* once the engine has visited every index.
C5_ReorderingInvariance ==
    (/\ Returned
     /\ last.eq # "none"
     /\ IsMapList(last.correlation)
     /\ DistinctKeys(last.correlation.Schema.mapKeys, last.correlation.OldValue.l)
     /\ IsPermutation(last.correlation.OldValue.l, last.correlation.Value.l))
    => last.eq = "true"

\* The new elements whose content differs from the old element with the
\* same merge-key values.
ChangedElements(n) ==
    {i \in 1..Len(n.Value.l) :
        ~DeepEqual(MapListGet(MakeMapList(n.Schema, n.OldValue.l), n.Value.l[i]),
                   n.Value.l[i])}

OneElementChanged(n) ==
    /\ IsMapList(n)
    /\ Len(n.OldValue.l) = Len(n.Value.l)
    /\ DistinctKeys(n.Schema.mapKeys, n.OldValue.l)
    /\ DistinctKeys(n.Schema.mapKeys, n.Value.l)
    /\ \A i \in 1..Len(n.Value.l) :
          ~IsNil(MapListGet(MakeMapList(n.Schema, n.OldValue.l), n.Value.l[i]))
    /\ Cardinality(ChangedElements(n)) = 1

\* C6: in a map-type list with the same merge keys and exactly one changed
\* element, CachedDeepEqual is false on the list and true on the node of
\* every unchanged element.
C6_PartialChange ==
    /\ (Returned /\ last.eq # "none" /\ OneElementChanged(last.correlation))
        => last.eq = "false"
    /\ (/\ Returned
         /\ last.eq # "none"
         /\ Len(last.path) >= 1
         /\ OneElementChanged(Caller)
         /\ DeepEqual(last.correlation.OldValue, last.correlation.Value))
        => last.eq = "true"

IsUncorrelatedList(n) ==
    /\ ~IsNilSchema(n.Schema)
    /\ n.Schema.listType \in {"set", "atomic"}

\* C8: for a set-type or atomic list, Index returns nil for every index, the
\* node never has a child, and SubIndexValidator hands out the engine's
\* default validator.
C8_SetAndAtomicNeverCorrelated ==
    phase = "validating" =>
        /\ \A p \in Paths(root) :
              IsUncorrelatedList(NodeAt(root, p)) =>
                /\ DOMAIN NodeAt(root, p).children = {}
                /\ \A i \in Indices :
                      /\ ~Index(NodeAt(root, p), i).found
                      /\ ~Index(NodeAt(root, p), i).panic
                      /\ Index(NodeAt(root, p), i).l = NodeAt(root, p)
        /\ (last.op = "SubIndexValidator" /\ IsUncorrelatedList(NodeAt(root, last.path)))
             => ~last.ratcheting

\* The engine asked for the validator of an element of an unchanged set or
\* atomic list and got its default validator.
C8_Witness ==
    /\ phase = "validating"
    /\ last.op = "SubIndexValidator"
    /\ ~last.ratcheting
    /\ IsUncorrelatedList(NodeAt(root, last.path))
    /\ IsList(NodeAt(root, last.path).OldValue)
    /\ Len(NodeAt(root, last.path).Value.l) = 2
    /\ DeepEqual(NodeAt(root, last.path).OldValue, NodeAt(root, last.path).Value)

\* C9: a list or map node without a populated child is compared by the
\* generic structural equality of its old and new value.
C9_GenericFallback ==
    (/\ Returned
     /\ last.eq # "none"
     /\ IsList(last.correlation.Value) \/ IsMap(last.correlation.Value)
     /\ DOMAIN last.correlation.children = {})
    => (last.eq = "true"
         <=> DeepEqual(last.correlation.OldValue, last.correlation.Value))

(***************************************************************************)
(* Properties of the correlation tree under any order of calls             *)
(* (specification SpecClient).                                             *)
(***************************************************************************)
KeySetsDiffer(n) ==
    /\ IsMap(n.OldValue)
    /\ IsMap(n.Value)
    /\ DOMAIN n.OldValue.m # DOMAIN n.Value.m

\* C7: a map node whose old and new map do not have the same keys is never
\* equal for CachedDeepEqual, whatever Key calls came before.
C7_KeyChangeBreaksEquality ==
    phase = "client" =>
        \A p \in Paths(root) :
            KeySetsDiffer(NodeAt(root, p)) =>
                /\ NodeAt(root, p).comparisonResult # Ptr(TRUE)
                /\ \A r \in CachedDeepEqual(NodeAt(root, p)) : ~Result(r)

\* A renamed key: as many keys as before, the common key unchanged, visited
\* and equal, and the map compared unequal.
C7_Witness ==
    /\ phase = "client"
    /\ KeySetsDiffer(root)
    /\ Cardinality(DOMAIN root.OldValue.m) = Cardinality(DOMAIN root.Value.m)
    /\ DOMAIN root.children # {}
    /\ \A k \in DOMAIN root.children : root.children[k].comparisonResult = Ptr(TRUE)
    /\ root.comparisonResult = Ptr(FALSE)

\* C10: a cached comparison result never changes, and CachedDeepEqual on a
\* node that has one returns it and leaves the node and its children as
\* they are.
C10_Memoized ==
    /\ [](phase = "client" =>
            \A p \in Paths(root) :
                NodeAt(root, p).comparisonResult # NilBool =>
                    CachedDeepEqual(NodeAt(root, p)) = {NodeAt(root, p)})
    /\ [][(phase = "client" /\ phase' = "client") =>
            \A p \in Paths(root) :
                NodeAt(root, p).comparisonResult # NilBool =>
                    NodeAt(root', p).comparisonResult = NodeAt(root, p).comparisonResult]_vars

\* A map compared before its field was visited: the cached result is false
\* although every child is now there and equal.
C10_Witness ==
    /\ phase = "client"
    /\ root.comparisonResult = Ptr(FALSE)
    /\ IsMap(root.Value)
    /\ DeepEqual(root.OldValue, root.Value)
    /\ Cardinality(DOMAIN root.children) = Cardinality(DOMAIN root.Value.m)
    /\ \A k \in DOMAIN root.children : root.children[k].comparisonResult = Ptr(TRUE)

(***************************************************************************)
(* Properties of the calls made on one RatchetingSchemaValidator           *)
(* (specification Spec).                                                   *)
(***************************************************************************)
\* C11: every ValidateUpdate starts from a fresh correlation tree and a fresh
\* root validator whatever the calls before it left behind, no tree outlives
\* its call, and no call changes the RatchetingSchemaValidator.
C11_CallsIsolated ==
    /\ [][validator' = validator]_vars
    /\ [][(phase # "validating" /\ phase' = "validating")
            => /\ root' = NewCorrelatedObject(root'.Value, root'.OldValue,
                                              validator.schema)
               /\ stack' = <<Frame(<<>>, root')>>
               /\ reports' = 0
               /\ result' = EmptyResult]_vars
    /\ [](phase \in {"idle", "done"} => root = NoObject /\ stack = <<>>)

\* A second call on the validator is a ValidateUpdate in progress that has
\* built children under a root that is not compared yet.
C11_Witness ==
    /\ calls = 2
    /\ phase = "validating"
    /\ root.comparisonResult = NilBool
    /\ DOMAIN root.children # {}

\* C12: Validate returns the engine's result as it is, errors kept as errors,
\* and builds no correlation node and no ratcheting validator.
C12_CreationNeverRatchets ==
    last.op = "Create" =>
        /\ last.ret = last.res
        /\ result = last.res
        /\ root = NoObject
        /\ stack = <<>>
        /\ phase = "done"

\* Validate returned a result with an error.
C12_Witness ==
    /\ last.op = "Create"
    /\ ~IsValid(last.ret)
    /\ result = last.ret

(***************************************************************************)
(* Properties of the correlation tree under any order of calls, continued  *)
(* (specification SpecClient).                                             *)
(***************************************************************************)
NonEmptyPair(n) ==
    \/ /\ IsList(n.OldValue) /\ IsList(n.Value)
       /\ Len(n.OldValue.l) > 0 /\ Len(n.Value.l) > 0
    \/ /\ IsMap(n.OldValue) /\ IsMap(n.Value)
       /\ DOMAIN n.OldValue.m # {} /\ DOMAIN n.Value.m # {}

ExpectedChildren(n) ==
    IF IsList(n.Value) THEN {IndexKey(i) : i \in 0..(Len(n.Value.l) - 1)}
    ELSE {FieldKey(f) : f \in DOMAIN n.Value.m}

FullyCompared(n) ==
    /\ DOMAIN n.children = ExpectedChildren(n)
    /\ \A k \in DOMAIN n.children : n.children[k].comparisonResult = Ptr(TRUE)

IsPositionalList(n) ==
    /\ ~IsNilSchema(n.Schema)
    /\ n.Schema.listType = ""
    /\ ~IsNilSchema(n.Schema.Items)
    /\ IsList(n.OldValue)
    /\ IsList(n.Value)

\* C14: on a list node without list type and with an items schema, Index(i)
\* returns a child that pairs the new element i with the old element i exactly
\* when i is within both lists, whatever the old element is, and nil, without
\* a fault, for every other i.
C14_PositionalCorrelation ==
    \A p \in ClientPaths : \A i \in Indices :
        LET n == NodeAt(root, p)
            r == Index(n, i)
        IN  IsPositionalList(n) =>
              /\ ~r.panic
              /\ r.found <=> (0 <= i /\ i < Len(n.Value.l) /\ i < Len(n.OldValue.l))
              /\ r.found =>
                   /\ r.l.children[IndexKey(i)].Value = n.Value.l[i + 1]
                   /\ r.l.children[IndexKey(i)].OldValue = n.OldValue.l[i + 1]

HasBothMaps(n) == ~IsNilSchema(n.Schema) /\ IsMap(n.OldValue) /\ IsMap(n.Value)

Correlatable(n, f) ==
    /\ f \in DOMAIN n.OldValue.m
    /\ f \in DOMAIN n.Value.m
    /\ \/ f \in DOMAIN n.Schema.Properties
       \/ ~IsNilSchema(n.Schema.AdditionalProperties)

\* C15: Key(f) returns a child exactly when f is a key of the old and of the
\* new map and the schema declares f or has an additionalProperties schema;
\* the child pairs new[f] with old[f] under the declared schema, else the
\* additionalProperties schema; in every other case Key returns nil and the
\* node is unchanged.
C15_PropertyCorrelation ==
    \A p \in ClientPaths : \A f \in FieldNames :
        LET n == NodeAt(root, p)
            r == Key(n, f)
        IN  /\ r.found <=> (HasBothMaps(n) /\ Correlatable(n, f))
            /\ r.found =>
                 /\ r.l.children[FieldKey(f)].Value = n.Value.m[f]
                 /\ r.l.children[FieldKey(f)].OldValue = n.OldValue.m[f]
                 /\ r.l.children[FieldKey(f)].Schema =
                        IF f \in DOMAIN n.Schema.Properties
                        THEN n.Schema.Properties[f]
                        ELSE n.Schema.AdditionalProperties
            /\ ~r.found => r.l = n

\* Key has built children under the declared and under the additional
\* schema, one of them pairing a null with a null.
C15_Witness ==
    /\ phase = "client"
    /\ HasBothMaps(root)
    /\ \E f, g \in FieldNames :
          /\ FieldKey(f) \in DOMAIN root.children
          /\ FieldKey(g) \in DOMAIN root.children
          /\ root.children[FieldKey(f)].Schema = Leaf
          /\ root.children[FieldKey(g)].Schema = AtomicListSchema
    /\ \E new, old \in ValuesOf(validator.name) :
          /\ IsMap(new) /\ IsMap(old)
          /\ "x" \in DOMAIN new.m /\ "x" \in DOMAIN old.m
          /\ IsNil(new.m["x"]) /\ IsNil(old.m["x"])
          /\ Key(NewCorrelatedObject(new, old, validator.schema), "x").found

\* C16: a repeated Key or Index returns the stored child and changes nothing,
\* a failed lookup leaves children unchanged, every stored child is one a
\* lookup finds, and a step creates at most one node and keeps every node
\* that exists together with its children.
C16_OneNodePerPosition ==
    /\ [](\A p \in ClientPaths :
            LET n == NodeAt(root, p)
            IN  /\ \A f \in FieldNames :
                     /\ FieldKey(f) \in DOMAIN n.children
                          => Key(n, f) = [l |-> n, found |-> TRUE]
                     /\ ~Key(n, f).found => Key(n, f).l.children = n.children
                /\ \A i \in Indices :
                     /\ IndexKey(i) \in DOMAIN n.children
                          => Index(n, i) = [l |-> n, found |-> TRUE, panic |-> FALSE]
                     /\ ~Index(n, i).found => Index(n, i).l.children = n.children
                /\ \A k \in DOMAIN n.children :
                     IF IsFieldKey(k) THEN k.f \in FieldNames /\ Key(n, k.f).found
                     ELSE k.i \in Indices /\ Index(n, k.i).found)
    /\ [][/\ ClientPaths \subseteq Paths(root')
          /\ Cardinality(Paths(root')) <= Cardinality(ClientPaths) + 1
          /\ \A p \in ClientPaths :
                /\ NodeAt(root', p).Value = NodeAt(root, p).Value
                /\ NodeAt(root', p).OldValue = NodeAt(root, p).OldValue
                /\ NodeAt(root', p).Schema = NodeAt(root, p).Schema]_vars

\* A child that is compared and has a child of its own is stored under the
\* root, next to a second child.
C16_Witness ==
    /\ phase = "client"
    /\ Cardinality(DOMAIN root.children) = 2
    /\ \E k \in DOMAIN root.children :
          /\ root.children[k].comparisonResult # NilBool
          /\ DOMAIN root.children[k].children # {}

\* C17: Key and Index never fault, and return nil without changing the node
\* when it has no schema, when a value has the wrong shape and for every
\* index outside the new list, a negative index included.
C17_NavigationNeverFaults ==
    /\ phase # "panic"
    /\ \A p \in ClientPaths :
          LET n == NodeAt(root, p)
          IN  /\ \A f \in FieldNames :
                   (IsNilSchema(n.Schema) \/ ~IsMap(n.Value) \/ ~IsMap(n.OldValue))
                   => Key(n, f) = [l |-> n, found |-> FALSE]
              /\ \A i \in Indices :
                   /\ ~Index(n, i).panic
                   /\ (\/ IsNilSchema(n.Schema)
                       \/ ~IsList(n.Value)
                       \/ ~IsList(n.OldValue)
                       \/ i < 0
                       \/ i >= Len(n.Value.l))
                      => Index(n, i) = [l |-> n, found |-> FALSE, panic |-> FALSE]

(***************************************************************************)
(* Properties of ValidateUpdate, continued (specification Spec).           *)
(***************************************************************************)
Bijections(n) == {pi \in [1..n -> 1..n] : \A i, j \in 1..n : pi[i] = pi[j] => i = j}

SubSchema(schema, f) ==
    IF IsNilSchema(schema) THEN NilSchema
    ELSE IF f \in DOMAIN schema.Properties THEN schema.Properties[f]
    ELSE schema.AdditionalProperties

ItemsOf(schema) == IF IsNilSchema(schema) THEN NilSchema ELSE schema.Items

\* Equal except for the order of the elements of map-type lists.
RECURSIVE EqualUpToMapListOrder(_, _, _)
EqualUpToMapListOrder(schema, old, new) ==
    IF IsList(old) /\ IsList(new)
    THEN /\ Len(old.l) = Len(new.l)
         /\ IF ~IsNilSchema(schema) /\ schema.listType = "map"
            THEN \E pi \in Bijections(Len(new.l)) :
                    \A i \in 1..Len(new.l) :
                        EqualUpToMapListOrder(ItemsOf(schema), old.l[pi[i]], new.l[i])
            ELSE \A i \in 1..Len(new.l) :
                    EqualUpToMapListOrder(ItemsOf(schema), old.l[i], new.l[i])
    ELSE IF IsMap(old) /\ IsMap(new)
    THEN /\ DOMAIN old.m = DOMAIN new.m
         /\ \A f \in DOMAIN new.m :
               EqualUpToMapListOrder(SubSchema(schema, f), old.m[f], new.m[f])
    ELSE DeepEqual(old, new)

\* C18: when CachedDeepEqual returned true at a node and its errors were
\* demoted, the new value equals the old value except for the order of the
\* elements of map-type lists: each old element is matched by one new element.
C18_EqualitySound ==
    (Returned /\ last.eq = "true")
    => EqualUpToMapListOrder(last.correlation.Schema, last.correlation.OldValue,
                             last.correlation.Value)

AllNodes(n) == {NodeAt(n, p) : p \in Paths(n)}

ReportedErrors(res) == {e \in Entries(res) : e.sev = "error"}

\* C19: the node of a Validate call that is in progress is not compared; a
\* call whose engine result has no error does not compare and returns its
\* node as it was; while the engine has reported no error in a ValidateUpdate
\* call no node of the tree is compared.
C19_LazyEquality ==
    /\ phase = "validating" =>
          /\ \A j \in 1..Len(stack) :
                NodeAt(root, stack[j].path).comparisonResult = NilBool
          /\ (\A j \in 1..Len(stack) : ReportedErrors(stack[j].res) = {})
                => \A n \in AllNodes(root) : n.comparisonResult = NilBool
    /\ (Returned /\ IsValid(last.res)) =>
          /\ last.eq = "none"
          /\ last.correlation.comparisonResult = NilBool
    /\ (Returned /\ phase = "done" /\ ReportedErrors(last.res) = {}) =>
          \A n \in AllNodes(last.correlation) : n.comparisonResult = NilBool

\* A ValidateUpdate returned with warnings only after it visited children,
\* and no node of its tree was compared.
C19_Witness ==
    /\ Returned
    /\ phase = "done"
    /\ IsValid(last.res)
    /\ Len(last.res.Warnings) >= 1
    /\ Cardinality(AllNodes(last.correlation)) >= 3
    /\ \A n \in AllNodes(last.correlation) : n.comparisonResult = NilBool

====
